---- MODULE Spec2Model ----
(***************************************************************************)
(* Wollac/iota-playground: the two command line programs                   *)
(*   send_all       consolidation flow, src/send_all/src/main.rs           *)
(*   timed_balance  reporting flow,     src/timed_balance/src/main.rs      *)
(* Each program is a single sequential async main; every .await and every  *)
(* fallible call (`?`) is a step that either succeeds or ends the run.     *)
(* The node, the key derivation and the price API are the environment:     *)
(* what they answer is chosen nondeterministically.                        *)
(***************************************************************************)
EXTENDS Integers, Sequences, FiniteSets, TLC

(* ------------------------------ bounds --------------------------------- *)
MaxKeys == 2
MaxOutputs == 2
MaxTime == 1
MaxAmount == 1
MaxAttempts == 1

(* --------------------- unsigned 64-bit quantities ---------------------- *)
(* amount() is u64 and so are total_amount, the bucket values and          *)
(* cumulative. A u64 is kept as NumLimbs digits in base LimbBase, least    *)
(* significant first; exact (unbounded) sums carry one more limb.          *)
LimbBase == 65536
NumLimbs == 4

Limbs(n) == [i \in 1..n |-> 0]

\* the u64 holding the small number n (n < LimbBase)
U64(n) == [Limbs(NumLimbs) EXCEPT ![1] = n]

U64Max == [i \in 1..NumLimbs |-> LimbBase - 1]
U64Half == [Limbs(NumLimbs) EXCEPT ![NumLimbs] = LimbBase \div 2]

RECURSIVE CarryInto(_, _, _)
CarryInto(a, b, i) ==
    IF i = 1 THEN 0
    ELSE (a[i - 1] + b[i - 1] + CarryInto(a, b, i - 1)) \div LimbBase

\* digit-wise sum of two numbers of the same length, the last carry dropped
AddLimbs(a, b) == [i \in 1..Len(a) |-> (a[i] + b[i] + CarryInto(a, b, i)) % LimbBase]

\* a + b does not fit the width of a and b
Overflows(a, b) == CarryInto(a, b, Len(a) + 1) # 0

\* one limb wider, same value
Wide(a) == a \o <<0>>
WideZero == Limbs(NumLimbs + 1)

\* the exact value fits 64 bits
Fits(w) == w[NumLimbs + 1] = 0

RECURSIVE LessFrom(_, _, _)
LessFrom(a, b, i) ==
    IF i = 0 THEN FALSE
    ELSE IF a[i] # b[i] THEN a[i] < b[i]
    ELSE LessFrom(a, b, i - 1)

LessEq(a, b) == a = b \/ LessFrom(a, b, Len(a))

(* ----------------------------- inputs ---------------------------------- *)
Times == 0..MaxTime
None == <<>>
Some(t) == <<t>>
OptTime == {None} \cup {Some(t) : t \in Times}

\* amounts the node hands to the two flows: small ones. The outputs of a ledger
\* add up to its token supply, itself a u64, so the sums main forms over fetched
\* records stay within 64 bits; print_balances is also run on every map of its
\* parameter type (SpecPrint), where they need not.
FlowAmounts == {U64(n) : n \in 0..MaxAmount}

\* an output with its metadata, as get_outputs returns it
OutputRecords(amounts, expirations) ==
    [spent : BOOLEAN, amount : amounts, timelock : OptTime,
     expiration : expirations, booked : Times]

GoodKeys == {"k1", "k2"}
KeyIds == GoodKeys \cup {"bad"}
AddressOf == [k \in GoodKeys |-> IF k = "k1" THEN "addr1" ELSE "addr2"]
Addresses == {AddressOf[k] : k \in GoodKeys}

RECURSIVE SeqsUpTo(_, _)
SeqsUpTo(S, n) ==
    IF n = 0 THEN {<<>>}
    ELSE LET shorter == SeqsUpTo(S, n - 1)
         IN shorter \cup {Append(s, x) : s \in {q \in shorter : Len(q) = n - 1}, x \in S}

KeyLists == SeqsUpTo(KeyIds, MaxKeys)

(* ------------------------------ state ---------------------------------- *)
VARIABLES
    keys,            \* args.keys not yet taken by the for loop
    pc,              \* where main is
    error,           \* the Err main returned with, "" while there is none
    secret_manager,  \* the key of the current iteration
    address,         \* the address derived from it
    unread,          \* records of outputs_responses the inner loop has not read
    overflow_checks, \* the build: TRUE panics on integer overflow, FALSE wraps
    now,             \* send_all: node time, read once
    total_amount,    \* send_all: running total of the current key
    block_id,        \* send_all: id of the block of the current key
    attempts,        \* send_all: polls of retry_until_included so far
    out,             \* send_all: lines printed
    blocks,          \* node: blocks submitted, in order
    awaiting,        \* node: ids of submitted blocks not known to be included
    cur,             \* send_all: number of keys taken so far
    spendable_sum,   \* history: exact sum of the spendable records read for this key
    balances,        \* timed_balance: BTreeMap timestamp -> amount
    currency,        \* timed_balance: args.currency
    rate_table,      \* timed_balance: ApiResponse.iota, once received
    price,           \* timed_balance: the rate looked up
    rows,            \* timed_balance: the Vec of rows print_balances builds
    cumulative,      \* timed_balance: running sum in print_balances
    printed,         \* timed_balance: the table was printed
    bucket_sum,      \* history: exact per bucket sum of the qualifying records read
    contributions,   \* history: per record (address, position) times it was added
    audit            \* whether the contributions history is kept in this run

common == <<keys, pc, error, secret_manager, address, unread, overflow_checks>>
sendVars == <<now, total_amount, block_id, attempts, out, blocks, awaiting, cur,
              spendable_sum>>
reportVars == <<balances, currency, rate_table, price, rows, cumulative, printed,
                bucket_sum, contributions, audit>>
vars == <<common, sendVars, reportVars>>

Currencies == {"eur", "usd"}
EmptyMap == [t \in {} |-> U64(0)]
RecordIds == Addresses \X (1..MaxOutputs)

ReportIdle ==
    /\ balances = EmptyMap
    /\ currency = "eur"
    /\ rate_table = EmptyMap
    /\ price = 0
    /\ rows = <<>>
    /\ cumulative = U64(0)
    /\ printed = FALSE
    /\ bucket_sum = [t \in Times |-> WideZero]
    /\ contributions = [r \in RecordIds |-> 0]
    /\ audit = FALSE

SendIdle ==
    /\ now = 0
    /\ total_amount = U64(0)
    /\ block_id = 0
    /\ attempts = 0
    /\ out = <<>>
    /\ blocks = <<>>
    /\ awaiting = {}
    /\ cur = 0
    /\ spendable_sum = WideZero

(* ===================== send_all: consolidation flow ==================== *)
SendOutputs == OutputRecords(FlowAmounts, OptTime)

\* iota_sdk UnlockConditions::is_time_locked: a timelock later than the given time
is_time_locked(o, t) == o.timelock # None /\ t < o.timelock[1]

\* iota_sdk UnlockConditions::is_expired: an expiration at or before the given time
is_expired(o, t) == o.expiration # None /\ t >= o.expiration[1]

CountsLockedOnly(o, t) == ~is_time_locked(o, t)

\* line 85: if !locked && !expired
Counts(o, t) == ~is_time_locked(o, t) /\ ~is_expired(o, t)

\* lines 71-87: does this record add its amount to the total
Adds(o, t) == ~o.spent /\ Counts(o, t)

NeverZero(t) == FALSE

\* line 89: if total_amount == 0
IsZeroTotal(t) == t = U64(0)

SendFailContinue(e) == error' = e /\ pc' = "loop"

\* `?` on an Err: main returns it, nothing after it runs
SendFail(e) == error' = e /\ pc' = "failed"

\* lines 33-43: .env, arguments, client, token supply, node time
Connect ==
    /\ pc = "start"
    /\ now' \in Times
    /\ pc' = "loop"
    /\ UNCHANGED <<keys, error, secret_manager, address, unread, overflow_checks,
                   total_amount, block_id, attempts, out, blocks, awaiting, cur,
                   spendable_sum, reportVars>>

ConnectFail ==
    /\ pc = "start"
    /\ SendFail("NodeUnavailable")
    /\ UNCHANGED <<keys, secret_manager, address, unread, overflow_checks,
                   sendVars, reportVars>>

\* lines 45-46: the loop takes the next key and decodes it
DecodeKey ==
    /\ pc = "loop"
    /\ keys # <<>>
    /\ Head(keys) \in GoodKeys
    /\ secret_manager' = Head(keys)
    /\ keys' = Tail(keys)
    /\ cur' = cur + 1
    /\ pc' = "decoded"
    /\ UNCHANGED <<error, address, unread, overflow_checks, now, total_amount,
                   block_id, attempts, out, blocks, awaiting, spendable_sum,
                   reportVars>>

DecodeKeyFail ==
    /\ pc = "loop"
    /\ keys # <<>>
    /\ Head(keys) \notin GoodKeys
    /\ keys' = Tail(keys)
    /\ cur' = cur + 1
    /\ SendFail("KeyDecodeError")
    /\ UNCHANGED <<secret_manager, address, unread, overflow_checks, now,
                   total_amount, block_id, attempts, out, blocks, awaiting,
                   spendable_sum, reportVars>>

\* lines 49-57: first address of account 0
DeriveAddress ==
    /\ pc = "decoded"
    /\ address' = AddressOf[secret_manager]
    /\ pc' = "derived"
    /\ UNCHANGED <<keys, error, secret_manager, unread, overflow_checks, sendVars,
                   reportVars>>

DeriveAddressFail ==
    /\ pc = "decoded"
    /\ SendFail("AddressError")
    /\ UNCHANGED <<keys, secret_manager, address, unread, overflow_checks,
                   sendVars, reportVars>>

\* lines 60-65: ids of the basic outputs of the address
QueryOutputIds ==
    /\ pc = "derived"
    /\ pc' = "queried"
    /\ UNCHANGED <<keys, error, secret_manager, address, unread, overflow_checks,
                   sendVars, reportVars>>

QueryOutputIdsFail ==
    /\ pc = "derived"
    /\ SendFail("QueryError")
    /\ UNCHANGED <<keys, secret_manager, address, unread, overflow_checks,
                   sendVars, reportVars>>

\* lines 67-69: the records arrive (their number here, each one's content when the
\* loop reads it) and the total of this key starts at 0
GetOutputs ==
    /\ pc = "queried"
    /\ unread' \in 0..MaxOutputs
    /\ total_amount' = U64(0)
    /\ spendable_sum' = WideZero
    /\ pc' = "aggregating"
    /\ UNCHANGED <<keys, error, secret_manager, address, overflow_checks, now,
                   block_id, attempts, out, blocks, awaiting, cur, reportVars>>

GetOutputsFail ==
    /\ pc = "queried"
    /\ SendFail("FetchError")
    /\ UNCHANGED <<keys, secret_manager, address, unread, overflow_checks,
                   sendVars, reportVars>>

\* the claim's reading of "immediately spendable" at reference time t
ImmediatelySpendable(o, t) ==
    /\ ~o.spent
    /\ \A ts \in Times : o.timelock = Some(ts) => ~(ts > t)
    /\ \A ts \in Times : o.expiration = Some(ts) => ~(ts <= t)

\* lines 70-88, one iteration: read a record, add its amount if it counts
AggregateOutput ==
    /\ pc = "aggregating"
    /\ unread > 0
    /\ \E o \in SendOutputs :
        /\ unread' = unread - 1
        /\ spendable_sum' = IF ImmediatelySpendable(o, now)
                            THEN AddLimbs(spendable_sum, Wide(o.amount))
                            ELSE spendable_sum
        /\ IF Adds(o, now) /\ Overflows(total_amount, o.amount) /\ overflow_checks
           THEN pc' = "panicked" /\ total_amount' = total_amount
           ELSE /\ pc' = pc
                /\ total_amount' = IF Adds(o, now)
                                   THEN AddLimbs(total_amount, o.amount)
                                   ELSE total_amount
    /\ UNCHANGED <<keys, error, secret_manager, address, overflow_checks, now,
                   block_id, attempts, out, blocks, awaiting, cur, reportVars>>

NoFunds(a) == [kind |-> "no_funds", address |-> a, id |-> 0]
Sending(a) == [kind |-> "sending", address |-> a, id |-> 0]
Sent(id) == [kind |-> "sent", address |-> "", id |-> id]
Included(id) == [kind |-> "included", address |-> "", id |-> id]

\* lines 89-92: nothing to send, next key
SkipNoFunds ==
    /\ pc = "aggregating"
    /\ unread = 0
    /\ IsZeroTotal(total_amount)
    /\ out' = Append(out, NoFunds(address))
    /\ pc' = "loop"
    /\ UNCHANGED <<keys, error, secret_manager, address, unread, overflow_checks,
                   now, total_amount, block_id, attempts, blocks, awaiting, cur,
                   spendable_sum, reportVars>>

\* lines 94-103: announce, build the one output carrying the total
BuildOutput ==
    /\ pc = "aggregating"
    /\ unread = 0
    /\ ~IsZeroTotal(total_amount)
    /\ out' = Append(out, Sending(address))
    /\ pc' = "built"
    /\ UNCHANGED <<keys, error, secret_manager, address, unread, overflow_checks,
                   now, total_amount, block_id, attempts, blocks, awaiting, cur,
                   spendable_sum, reportVars>>

\* line 103: finish_output(token_supply) rejects the amount
BuildOutputFail ==
    /\ pc = "aggregating"
    /\ unread = 0
    /\ ~IsZeroTotal(total_amount)
    /\ out' = Append(out, Sending(address))
    /\ SendFail("OutputConstructionError")
    /\ UNCHANGED <<keys, secret_manager, address, unread, overflow_checks, now,
                   total_amount, block_id, attempts, blocks, awaiting, cur,
                   spendable_sum, reportVars>>

SubmitBlockNoWait ==
    /\ pc = "built"
    /\ blocks' = Append(blocks, [id |-> Len(blocks) + 1, signer |-> secret_manager])
    /\ block_id' = Len(blocks) + 1
    /\ awaiting' = awaiting \cup {Len(blocks) + 1}
    /\ attempts' = 0
    /\ out' = Append(out, Sent(Len(blocks) + 1))
    /\ pc' = "loop"
    /\ UNCHANGED <<keys, error, secret_manager, address, unread, overflow_checks,
                   now, total_amount, cur, spendable_sum, reportVars>>

SubmitBlockSilent ==
    /\ pc = "built"
    /\ blocks' = Append(blocks, [id |-> Len(blocks) + 1, signer |-> secret_manager])
    /\ block_id' = Len(blocks) + 1
    /\ awaiting' = awaiting \cup {Len(blocks) + 1}
    /\ attempts' = 0
    /\ out' = out
    /\ pc' = "awaiting"
    /\ UNCHANGED <<keys, error, secret_manager, address, unread, overflow_checks,
                   now, total_amount, cur, spendable_sum, reportVars>>

\* lines 105-111: the block is built, signed and sent; its id is printed
SubmitBlock ==
    /\ pc = "built"
    /\ blocks' = Append(blocks, [id |-> Len(blocks) + 1, signer |-> secret_manager])
    /\ block_id' = Len(blocks) + 1
    /\ awaiting' = awaiting \cup {Len(blocks) + 1}
    /\ attempts' = 0
    /\ out' = Append(out, Sent(Len(blocks) + 1))
    /\ pc' = "awaiting"
    /\ UNCHANGED <<keys, error, secret_manager, address, unread, overflow_checks,
                   now, total_amount, cur, spendable_sum, reportVars>>

SubmitBlockFail ==
    /\ pc = "built"
    /\ SendFail("SubmissionError")
    /\ UNCHANGED <<keys, secret_manager, address, unread, overflow_checks,
                   sendVars, reportVars>>

\* line 113, inside retry_until_included: a poll finds the block not yet included
AwaitPoll ==
    /\ pc = "awaiting"
    /\ attempts < MaxAttempts
    /\ attempts' = attempts + 1
    /\ UNCHANGED <<common, now, total_amount, block_id, out, blocks, awaiting, cur,
                   spendable_sum, reportVars>>

\* lines 113-114: a poll finds it included; the id is printed again
AwaitIncluded ==
    /\ pc = "awaiting"
    /\ attempts < MaxAttempts
    /\ awaiting' = awaiting \ {block_id}
    /\ out' = Append(out, Included(block_id))
    /\ pc' = "loop"
    /\ UNCHANGED <<keys, error, secret_manager, address, unread, overflow_checks,
                   now, total_amount, block_id, attempts, blocks, cur,
                   spendable_sum, reportVars>>

\* line 113: the retry budget is used up
AwaitTimeout ==
    /\ pc = "awaiting"
    /\ attempts = MaxAttempts
    /\ SendFail("ConfirmationTimeout")
    /\ UNCHANGED <<keys, secret_manager, address, unread, overflow_checks,
                   sendVars, reportVars>>

\* line 117: no key left
Finish ==
    /\ pc = "loop"
    /\ keys = <<>>
    /\ pc' = "done"
    /\ UNCHANGED <<keys, error, secret_manager, address, unread, overflow_checks,
                   sendVars, reportVars>>

InitSend ==
    /\ keys \in KeyLists
    /\ pc = "start"
    /\ error = ""
    /\ secret_manager = ""
    /\ address = ""
    /\ unread = 0
    /\ overflow_checks \in BOOLEAN
    /\ SendIdle
    /\ ReportIdle

NextSend ==
    \/ Connect \/ ConnectFail
    \/ DecodeKey \/ DecodeKeyFail
    \/ DeriveAddress \/ DeriveAddressFail
    \/ QueryOutputIds \/ QueryOutputIdsFail
    \/ GetOutputs \/ GetOutputsFail
    \/ AggregateOutput
    \/ SkipNoFunds
    \/ BuildOutput \/ BuildOutputFail
    \/ SubmitBlock \/ SubmitBlockFail
    \/ AwaitPoll \/ AwaitIncluded \/ AwaitTimeout
    \/ Finish

SpecSend == InitSend /\ [][NextSend]_vars

(* ==================== timed_balance: reporting flow ==================== *)
\* the indexer query asks for HasExpiration(false): no record carries an expiration
ReportOutputs == OutputRecords(FlowAmounts, {None})

Rates == {1, 2}
RateTables == UNION {[cs -> Rates] : cs \in SUBSET Currencies}

ReportFailContinue(e) == error' = e /\ pc' = "loop"

\* `?` on an Err: main returns it, nothing after it runs
ReportFail(e) == error' = e /\ pc' = "failed"

BucketKeyBooked(o) == o.booked

\* lines 83-90: the timelock's timestamp, else the booking timestamp
BucketKey(o) == IF o.timelock # None THEN o.timelock[1] ELSE o.booked

\* lines 73 and 78: spent records and records of amount 0 are passed over
Bucketed(o) == ~o.spent /\ o.amount # U64(0)

\* line 93: *balances.entry(ts).or_insert(0) += amount, wrapping
AddToBucket(m, ts, a) ==
    [t \in DOMAIN m \cup {ts} |->
        IF t = ts THEN AddLimbs(IF ts \in DOMAIN m THEN m[ts] ELSE U64(0), a)
        ELSE m[t]]

BucketOverflows(m, ts, a) == ts \in DOMAIN m /\ Overflows(m[ts], a)

reportKeep == <<rate_table, price, rows, cumulative, printed>>

\* lines 36-45: .env, arguments, client, the empty map
ReportConnect ==
    /\ pc = "start"
    /\ balances' = EmptyMap
    /\ pc' = "loop"
    /\ UNCHANGED <<keys, error, secret_manager, address, unread, overflow_checks,
                   currency, reportKeep, bucket_sum, contributions, audit,
                   sendVars>>

ReportConnectFail ==
    /\ pc = "start"
    /\ ReportFail("NodeUnavailable")
    /\ UNCHANGED <<keys, secret_manager, address, unread, overflow_checks,
                   reportVars, sendVars>>

\* lines 46-47: the loop takes the next key and decodes it
ReportDecodeKey ==
    /\ pc = "loop"
    /\ keys # <<>>
    /\ Head(keys) \in GoodKeys
    /\ secret_manager' = Head(keys)
    /\ keys' = Tail(keys)
    /\ pc' = "decoded"
    /\ UNCHANGED <<error, address, unread, overflow_checks, reportVars, sendVars>>

ReportDecodeKeyFail ==
    /\ pc = "loop"
    /\ keys # <<>>
    /\ Head(keys) \notin GoodKeys
    /\ keys' = Tail(keys)
    /\ ReportFail("KeyDecodeError")
    /\ UNCHANGED <<secret_manager, address, unread, overflow_checks, reportVars,
                   sendVars>>

\* lines 50-58: first address of account 0
ReportDeriveAddress ==
    /\ pc = "decoded"
    /\ address' = AddressOf[secret_manager]
    /\ pc' = "derived"
    /\ UNCHANGED <<keys, error, secret_manager, unread, overflow_checks, reportVars,
                   sendVars>>

ReportDeriveAddressFail ==
    /\ pc = "decoded"
    /\ ReportFail("AddressError")
    /\ UNCHANGED <<keys, secret_manager, address, unread, overflow_checks,
                   reportVars, sendVars>>

\* lines 61-67: ids of the basic outputs of the address
ReportQueryOutputIds ==
    /\ pc = "derived"
    /\ pc' = "queried"
    /\ UNCHANGED <<keys, error, secret_manager, address, unread, overflow_checks,
                   reportVars, sendVars>>

ReportQueryOutputIdsFail ==
    /\ pc = "derived"
    /\ ReportFail("QueryError")
    /\ UNCHANGED <<keys, secret_manager, address, unread, overflow_checks,
                   reportVars, sendVars>>

\* line 69: the records arrive (their number here, each one's content when the
\* loop reads it); with none the outer loop goes on
ReportGetOutputs ==
    /\ pc = "queried"
    /\ \E n \in 0..MaxOutputs :
        /\ unread' = n
        /\ pc' = IF n = 0 THEN "loop" ELSE "bucketing"
    /\ UNCHANGED <<keys, error, secret_manager, address, overflow_checks,
                   reportVars, sendVars>>

ReportGetOutputsFail ==
    /\ pc = "queried"
    /\ ReportFail("FetchError")
    /\ UNCHANGED <<keys, secret_manager, address, unread, overflow_checks,
                   reportVars, sendVars>>

\* the claim's reading: a record counts when unspent with a non-zero amount, under
\* its time-lock timestamp when it has one and its booking timestamp otherwise
ClaimQualifies(o) == o.spent = FALSE /\ o.amount # U64(0)
ClaimBucketKey(o) ==
    IF \E ts \in Times : o.timelock = Some(ts)
    THEN CHOOSE ts \in Times : o.timelock = Some(ts)
    ELSE o.booked

\* lines 71-94, one iteration: read the record at position `unread` of the
\* address, add its amount to its bucket unless it is passed over
BucketOutput ==
    /\ pc = "bucketing"
    /\ unread > 0
    /\ \E o \in ReportOutputs :
        /\ unread' = unread - 1
        /\ bucket_sum' =
              IF ClaimQualifies(o)
              THEN [bucket_sum EXCEPT ![ClaimBucketKey(o)] = AddLimbs(@, Wide(o.amount))]
              ELSE bucket_sum
        /\ contributions' =
              IF audit /\ Bucketed(o)
              THEN [contributions EXCEPT ![<<address, unread>>] = @ + 1]
              ELSE contributions
        /\ IF Bucketed(o) /\ BucketOverflows(balances, BucketKey(o), o.amount)
              /\ overflow_checks
           THEN pc' = "panicked" /\ balances' = balances
           ELSE /\ pc' = IF unread = 1 THEN "loop" ELSE "bucketing"
                /\ balances' = IF Bucketed(o)
                               THEN AddToBucket(balances, BucketKey(o), o.amount)
                               ELSE balances
    /\ UNCHANGED <<keys, error, secret_manager, address, overflow_checks, currency,
                   reportKeep, audit, sendVars>>

\* lines 98, 113-124: every key is done; the price API answers with its table
RequestPrice ==
    /\ pc = "loop"
    /\ keys = <<>>
    /\ rate_table' \in RateTables
    /\ pc' = "got_rates"
    /\ UNCHANGED <<keys, error, secret_manager, address, unread, overflow_checks,
                   balances, currency, price, rows, cumulative, printed, bucket_sum,
                   contributions, audit, sendVars>>

RequestPriceFail ==
    /\ pc = "loop"
    /\ keys = <<>>
    /\ ReportFail("PriceApiError")
    /\ UNCHANGED <<keys, secret_manager, address, unread, overflow_checks,
                   reportVars, sendVars>>

LookupPriceDefault ==
    /\ pc = "got_rates"
    /\ currency \notin DOMAIN rate_table
    /\ price' = 0
    /\ rows' = <<>>
    /\ cumulative' = U64(0)
    /\ pc' = "printing"
    /\ UNCHANGED <<keys, error, secret_manager, address, unread, overflow_checks,
                   balances, currency, rate_table, printed, bucket_sum,
                   contributions, audit, sendVars>>

\* lines 125-130 and 143-146: the rate of the currency is there; print_balances
\* starts with no rows and cumulative 0
LookupPrice ==
    /\ pc = "got_rates"
    /\ currency \in DOMAIN rate_table
    /\ price' = rate_table[currency]
    /\ rows' = <<>>
    /\ cumulative' = U64(0)
    /\ pc' = "printing"
    /\ UNCHANGED <<keys, error, secret_manager, address, unread, overflow_checks,
                   balances, currency, rate_table, printed, bucket_sum,
                   contributions, audit, sendVars>>

\* lines 125-128: the table has no entry for the currency
LookupPriceMissing ==
    /\ pc = "got_rates"
    /\ currency \notin DOMAIN rate_table
    /\ ReportFail("RateUnavailable")
    /\ UNCHANGED <<keys, secret_manager, address, unread, overflow_checks,
                   reportVars, sendVars>>

\* the timestamps the BTreeMap iterator has not yielded yet
Unprinted == {t \in DOMAIN balances : \A i \in 1..Len(rows) : rows[i].unlock_time # t}

CumulativeForgets(c, a) == a

\* line 148: cumulative += amount, wrapping
NextCumulative(c, a) == AddLimbs(c, a)

\* lines 147-159, one iteration: the smallest timestamp left, its row
PrintRow ==
    /\ pc = "printing"
    /\ Unprinted # {}
    /\ LET ts == CHOOSE t \in Unprinted : \A u \in Unprinted : t <= u
           amount == balances[ts]
       IN IF Overflows(cumulative, amount) /\ overflow_checks
          THEN pc' = "panicked" /\ UNCHANGED <<cumulative, rows>>
          ELSE /\ cumulative' = NextCumulative(cumulative, amount)
               /\ rows' = Append(rows, [unlock_time |-> ts, amount |-> amount,
                                        cumulative |-> cumulative'])
               /\ pc' = pc
    /\ UNCHANGED <<keys, error, secret_manager, address, unread, overflow_checks,
                   balances, currency, rate_table, price, printed, bucket_sum,
                   contributions, audit, sendVars>>

\* lines 161-166 and 102: the table is printed, main returns Ok
PrintTable ==
    /\ pc = "printing"
    /\ Unprinted = {}
    /\ printed' = TRUE
    /\ pc' = "done"
    /\ UNCHANGED <<keys, error, secret_manager, address, unread, overflow_checks,
                   balances, currency, rate_table, price, rows, cumulative,
                   bucket_sum, contributions, audit, sendVars>>

ReportStart ==
    /\ keys \in KeyLists
    /\ pc = "start"
    /\ error = ""
    /\ secret_manager = ""
    /\ address = ""
    /\ unread = 0
    /\ overflow_checks \in BOOLEAN
    /\ SendIdle
    /\ balances = EmptyMap
    /\ currency \in Currencies
    /\ rate_table = EmptyMap
    /\ price = 0
    /\ rows = <<>>
    /\ cumulative = U64(0)
    /\ printed = FALSE
    /\ bucket_sum = [t \in Times |-> WideZero]
    /\ contributions = [r \in RecordIds |-> 0]

InitReport == ReportStart /\ audit = FALSE

\* the same program, with the history of which record was added kept
InitAudit == ReportStart /\ audit = TRUE

NextReport ==
    \/ ReportConnect \/ ReportConnectFail
    \/ ReportDecodeKey \/ ReportDecodeKeyFail
    \/ ReportDeriveAddress \/ ReportDeriveAddressFail
    \/ ReportQueryOutputIds \/ ReportQueryOutputIdsFail
    \/ ReportGetOutputs \/ ReportGetOutputsFail
    \/ BucketOutput
    \/ RequestPrice \/ RequestPriceFail
    \/ LookupPrice \/ LookupPriceMissing
    \/ PrintRow \/ PrintTable

SpecReport == InitReport /\ [][NextReport]_vars

SpecAudit == InitAudit /\ [][NextReport]_vars

(* print_balances over every map of its parameter type *)
PrintAmounts == {U64(0), U64(1), U64Half, U64Max}
PrintMaps == UNION {[ts -> PrintAmounts] : ts \in SUBSET Times}

InitPrint ==
    /\ keys = <<>>
    /\ pc = "printing"
    /\ error = ""
    /\ secret_manager = ""
    /\ address = ""
    /\ unread = 0
    /\ overflow_checks \in BOOLEAN
    /\ SendIdle
    /\ balances \in PrintMaps
    /\ currency \in Currencies
    /\ rate_table = EmptyMap
    /\ price \in Rates
    /\ rows = <<>>
    /\ cumulative = U64(0)
    /\ printed = FALSE
    /\ bucket_sum = [t \in Times |-> WideZero]
    /\ contributions = [r \in RecordIds |-> 0]
    /\ audit = FALSE

NextPrint == PrintRow \/ PrintTable

SpecPrint == InitPrint /\ [][NextPrint]_vars

(* ----------------------- send_all: the claims -------------------------- *)
KeyStages == {"decoded", "derived", "queried", "aggregating", "built", "awaiting"}

RECURSIVE CountKinds(_, _)
CountKinds(log, kinds) ==
    IF log = <<>> THEN 0
    ELSE (IF Head(log).kind \in kinds THEN 1 ELSE 0) + CountKinds(Tail(log), kinds)

\* C1: when the inner loop of a key has read every fetched record, total_amount is
\* exactly the sum of the amounts of the records of this key that are unspent, not
\* time-locked (timestamp > now) and not expired (timestamp <= now) at the reference
\* time; the sum restarts from 0 with every key.
C1_TotalIsSpendableSum ==
    (pc \in {"aggregating", "built", "awaiting"} /\ unread = 0)
        => Wide(total_amount) = spendable_sum

\* a second key whose two spendable records were both added, after a first key
\* that had funds of its own
C1_Witness ==
    /\ pc = "aggregating"
    /\ unread = 0
    /\ cur = 2
    /\ total_amount = U64(2)
    /\ \E i \in 1..Len(out) : out[i].kind = "included"

\* C5: the first failure of any stage ends the run with that error: the step that
\* fails leaves main failed, submits nothing, and no step follows it (no later
\* stage of the key, no later key).
C5_FailureIsTerminal ==
    [][/\ (error # "" => UNCHANGED vars)
       /\ (error' # "" => /\ pc' = "failed"
                          /\ blocks' = blocks
                          /\ awaiting' = awaiting)]_vars

\* a run that failed at submission with a key still waiting in the list
C5_Witness ==
    /\ pc = "failed"
    /\ error = "SubmissionError"
    /\ keys # <<>>

\* C6: a key whose total is zero prints the "no funds" notice, builds and submits
\* nothing, does not fail, and the loop goes on to the next key.
C6_ZeroTotalSkips ==
    [][(pc = "aggregating" /\ unread = 0 /\ total_amount = U64(0))
        => /\ out' = Append(out, NoFunds(address))
           /\ blocks' = blocks
           /\ awaiting' = awaiting
           /\ error' = ""
           /\ keys' = keys
           /\ pc' = "loop"]_vars

\* the key after a skipped one is being processed
C6_Witness ==
    /\ cur = 2
    /\ pc = "derived"
    /\ out = <<NoFunds("addr1")>>
    /\ blocks = <<>>

\* C7: "sent" with the block id is printed once the block is submitted and before
\* the wait starts; "included" with the same id follows it only once the node
\* reported inclusion; when the retry budget runs out the run fails, "included"
\* is not printed for that block and the "sent" line is still there.
C7_SentThenIncluded ==
    /\ pc = "awaiting" =>
          /\ out # <<>>
          /\ out[Len(out)] = Sent(block_id)
          /\ block_id \in awaiting
    /\ \A j \in 1..Len(out) :
          /\ out[j].kind = "sent" => \E i \in 1..Len(blocks) : blocks[i].id = out[j].id
          /\ out[j].kind = "included" =>
                /\ j > 1
                /\ out[j - 1] = Sent(out[j].id)
                /\ out[j].id \notin awaiting
    /\ error = "ConfirmationTimeout" =>
          /\ pc = "failed"
          /\ out[Len(out)] = Sent(block_id)
          /\ \A j \in 1..Len(out) : out[j] # Included(block_id)

\* the second key times out after the first was sent and included
C7_Witness ==
    /\ error = "ConfirmationTimeout"
    /\ block_id = 2
    /\ \E j \in 1..Len(out) : out[j] = Included(1)
    /\ out[Len(out)] = Sent(2)

\* C10: keys are handled one after the other: while any stage of a key runs, every
\* earlier key has reached its outcome ("no funds" or "included"), and at most one
\* submitted block is awaiting confirmation, the one of the current key.
C10_Sequential ==
    /\ Cardinality(awaiting) <= 1
    /\ pc \in KeyStages =>
          CountKinds(out, {"no_funds", "included"}) = cur - 1
    /\ pc \in KeyStages \ {"awaiting"} => awaiting = {}
    /\ pc = "awaiting" => awaiting = {block_id}

\* the second key is awaiting confirmation; the first was confirmed before
C10_Witness ==
    /\ pc = "awaiting"
    /\ cur = 2
    /\ blocks # <<>>
    /\ Len(blocks) = 2
    /\ out[3] = Included(1)

(* --------------------- timed_balance: the claims ----------------------- *)
AllKeysDone == pc \in {"got_rates", "printing", "done"} \/ (pc = "loop" /\ keys = <<>>)

\* C2: once every key is processed the map holds, for each timestamp, the sum of
\* the amounts of all fetched records that are unspent, of non-zero amount and
\* whose bucket key (time-lock timestamp if any, past or future, else booking
\* timestamp) is that timestamp, whichever key they came from; a timestamp with
\* no such record has no bucket.
C2_BucketsAreSums ==
    AllKeysDone =>
        /\ DOMAIN balances = {t \in Times : bucket_sum[t] # WideZero}
        /\ \A t \in DOMAIN balances : Wide(balances[t]) = bucket_sum[t]

\* bucket 0 holds 3, more than the two records of amount 1 that one fetch can
\* add: records fetched for two keys were added into it; bucket 1 does not exist
C2_Witness ==
    /\ pc = "got_rates"
    /\ address = "addr2"
    /\ DOMAIN balances = {0}
    /\ balances[0] = U64(3)

\* C3: no record is counted twice: each record of an address adds its amount to
\* the map at most once in a run, also when its key is listed more than once.
C3_CountedOnce == \A r \in RecordIds : contributions[r] <= 1

\* C4 as stated: a key that fails does not keep the rest of the list from being
\* processed, so the run never stands failed on a key with keys left untaken.
C4_KeysIndependent ==
    ~(/\ pc = "failed"
      /\ error \in {"KeyDecodeError", "AddressError", "QueryError", "FetchError"}
      /\ keys # <<>>)

\* C4 as the code has it: the step at which a key fails ends the run with that
\* error: nothing is added to the map by it or after it, no later key is taken and
\* no table is printed.
C4_KeyFailureEndsRun ==
    [][/\ (error # "" => UNCHANGED vars)
       /\ (error' # "" => /\ pc' = "failed"
                          /\ balances' = balances
                          /\ rows' = <<>>
                          /\ printed' = FALSE)]_vars

\* the fetch for the first key failed; the second key is left untaken
C4_Witness ==
    /\ pc = "failed"
    /\ error = "FetchError"
    /\ keys = <<"k2">>
    /\ secret_manager = "k1"
    /\ ~printed

\* C8: when the rate table has no entry for the currency the run fails with
\* RateUnavailable and prints nothing, no row either; rows and the table exist
\* only with a price that was looked up.
C8_NoRateNoTable ==
    [][/\ (pc = "got_rates" /\ currency \notin DOMAIN rate_table)
            => /\ pc' = "failed"
               /\ error' = "RateUnavailable"
               /\ rows' = <<>>
               /\ printed' = FALSE
       /\ (error = "RateUnavailable" => UNCHANGED vars)
       /\ (printed' \/ rows' # <<>>) => (price' \in Rates /\ error' = "")]_vars

\* the table came with the other currency only; buckets were there to print
C8_Witness ==
    /\ error = "RateUnavailable"
    /\ pc = "failed"
    /\ rate_table # EmptyMap
    /\ balances # EmptyMap
    /\ ~printed
    /\ rows = <<>>

RECURSIVE SumRows(_, _)
SumRows(rs, k) ==
    IF k = 0 THEN WideZero ELSE AddLimbs(SumRows(rs, k - 1), Wide(rs[k].amount))

RECURSIVE SumMap(_, _)
SumMap(m, S) ==
    IF S = {} THEN WideZero
    ELSE LET t == CHOOSE x \in S : TRUE
         IN AddLimbs(SumMap(m, S \ {t}), Wide(m[t]))

RowsAreCumulative ==
    /\ \A i, j \in 1..Len(rows) : i < j => rows[i].unlock_time < rows[j].unlock_time
    /\ \A k \in 1..Len(rows) :
          /\ rows[k].unlock_time \in DOMAIN balances
          /\ rows[k].amount = balances[rows[k].unlock_time]
          /\ Wide(rows[k].cumulative) = SumRows(rows, k)
    /\ \A k \in 1..(Len(rows) - 1) : LessEq(rows[k].cumulative, rows[k + 1].cumulative)
    /\ printed =>
          /\ Len(rows) = Cardinality(DOMAIN balances)
          /\ rows # <<>> =>
                Wide(rows[Len(rows)].cumulative) = SumMap(balances, DOMAIN balances)

====
